---- MODULE Spec2Model ----
(***************************************************************************)
(* The name-to-candidate mapping engine of rics.mapping.Mapper: the        *)
(* scoring procedure (Mapper.compute_scores) followed by the matching      *)
(* procedure (Mapper.to_directional_mapping), combined by Mapper.apply.    *)
(*                                                                         *)
(* Scores are extended reals; the model uses the integers 0..MaxScore for  *)
(* the finite scores and two integers outside every finite score and every *)
(* finite minimum score for -inf and +inf, so that the integer order is    *)
(* the order of the extended reals.                                        *)
(***************************************************************************)
EXTENDS Integers, Sequences, FiniteSets, TLC

\* ------------------------------------------------------------------ bounds
\* Finite scores are 0..MaxScore.
MaxScore == 3

\* Calls made on one Mapper.
MaxCalls == 2
MaxSteps == 2

\* ------------------------------------------------------------ data model
PosInf == MaxScore + 2
NegInf == 0 - (MaxScore + 2)
FiniteScores == 0..MaxScore
Scores == {NegInf} \cup FiniteScores \cup {PosInf}

\* Finite minimum scores: one below every finite score, the finite scores
\* above the lowest, and one above every finite score.
MinScores == {0 - 1} \cup (1..(MaxScore + 1))

ValueNames == {"v0", "v1"}
CandidateNames == {"c0", "c1"}

OneToOne == "OneToOne"
OneToMany == "OneToMany"
ManyToOne == "ManyToOne"
ManyToMany == "ManyToMany"
Cardinalities == {OneToOne, OneToMany, ManyToOne, ManyToMany}

\* The orderings of a set of names: the sequences a caller can pass.
Orderings(S) ==
    {s \in [1..Cardinality(S) -> S] : \A i, j \in DOMAIN s : i # j => s[i] # s[j]}

Range(s) == {s[i] : i \in DOMAIN s}

\* Position of a name in an input sequence.
IndexOf(s, x) == CHOOSE i \in DOMAIN s : s[i] = x

Pairs(vals, cands) == Range(vals) \X Range(cands)

\* No candidate: the result of an override that does not fire.
NoCandidate == "None"

\* A candidate name that is not in the candidate sequence.
UnknownCandidate == "cx"

\* What an override may name for a value.
OverrideTargets == CandidateNames \cup {UnknownCandidate, NoCandidate}

\* Runtime override functions: value -> candidate, or no candidate.
OverrideFunctions == [ValueNames -> OverrideTargets]

Contexts == {"k0", "k1"}

\* One level of the override table: value -> candidate, or no entry.
NoEntries == [v \in ValueNames |-> NoCandidate]

\* Override tables (InheritedKeysDict): a default level and one level per
\* context.
NoOverrides == [default |-> NoEntries, specific |-> [k \in Contexts |-> NoEntries]]

DefaultOverrides ==
    [default |-> [NoEntries EXCEPT !["v0"] = "c1"],
     specific |-> [k \in Contexts |-> NoEntries]]

ContextOverrides ==
    [default |-> [NoEntries EXCEPT !["v0"] = "c1"],
     specific |-> [k \in Contexts |->
                     IF k = "k1" THEN [NoEntries EXCEPT !["v0"] = "c0", !["v1"] = "c1"]
                     ELSE NoEntries]]

\* A table whose default level names a candidate that is not offered.
UnknownOverrides ==
    [default |-> [NoEntries EXCEPT !["v1"] = UnknownCandidate],
     specific |-> [k \in Contexts |-> NoEntries]]

OverrideTables == {NoOverrides, DefaultOverrides, ContextOverrides, UnknownOverrides}

\* A filter function, by the candidates it rejects for each value.
RejectNothing == [v \in ValueNames |-> {}]
RejectC1ForV0 == [RejectNothing EXCEPT !["v0"] = {"c1"}]
RejectAllForV1 == [RejectNothing EXCEPT !["v1"] = CandidateNames]

\* The filter lists a Mapper is configured with.
FilterLists == {<<>>, <<RejectC1ForV0, RejectAllForV1>>}

\* Base scores a score function returns.
BaseScores == {0, MaxScore}

\* Score functions: a finite score for every value and candidate.
ScoreFunctions == [ValueNames \X CandidateNames -> BaseScores]

\* Names an alias function may rewrite a value to.
AliasNames == {"w0"}
HeuristicValues == ValueNames \cup AliasNames

\* Score functions that also score the rewritten values.
AliasScoreFunctions == [HeuristicValues \X CandidateNames -> BaseScores]

\* Alias functions rewrite (value, candidates): one rewrites every value to
\* the alias name, the other swaps the candidate names.
NoValueRewrite == [v \in HeuristicValues |-> v]
NoCandidateRewrite == [c \in CandidateNames |-> c]
ValueToAlias == [v \in HeuristicValues |-> "w0"]
SwapCandidates == [c \in CandidateNames |-> IF c = "c0" THEN "c1" ELSE "c0"]

\* A short-circuit function returns candidates for a value: c1 for v0, none
\* for v1, c0 for the alias name.
ShortCircuitReturns ==
    [v \in HeuristicValues |->
        IF v = "v0" THEN {"c1"} ELSE IF v = "w0" THEN {"c0"} ELSE {}]
ReturnsNothing == [v \in HeuristicValues |-> {}]

\* Heuristic steps: alias steps, with or without mutate, and a short-circuit
\* step.
AliasStep(valueRewrite, candidateRewrite, mutate) ==
    [kind |-> "alias", value |-> valueRewrite, candidate |-> candidateRewrite,
     returns |-> ReturnsNothing, mutate |-> mutate]

ShortCircuitStep(returns) ==
    [kind |-> "short_circuit", value |-> NoValueRewrite,
     candidate |-> NoCandidateRewrite, returns |-> returns, mutate |-> FALSE]

HeuristicSteps ==
    {AliasStep(ValueToAlias, NoCandidateRewrite, m) : m \in BOOLEAN}
    \cup {AliasStep(NoValueRewrite, SwapCandidates, TRUE)}
    \cup {ShortCircuitStep(ShortCircuitReturns)}

\* The heuristic lists a Mapper is configured with: every ordered list of at
\* most MaxSteps steps.
HeuristicLists == UNION {[1..n -> HeuristicSteps] : n \in 0..MaxSteps}

\* Minimum scores of a Mapper with heuristics: negative, the lowest positive
\* one, the highest finite score and one above every finite score.
HeuristicMinScores == {-1, 1, MaxScore, MaxScore + 1}

\* HeuristicScore subtracts a penalty per position from the score of a step.
PositionalPenalty == 1

\* Mapper.unmapped_values_action.
UnmappedValuesActions == {"ignore", "warn", "raise"}

VARIABLES
    score_function,    \* Mapper.score_function
    overrides,         \* Mapper.overrides, the static override table
    filter_functions,  \* Mapper.filter_functions
    heuristics,        \* the heuristic steps of the score function, in order
    unmapped_values_action,  \* Mapper.unmapped_values_action
    context,           \* the context of the call
    override_function, \* the runtime override function of the call
    row,               \* number of rows of the score matrix computed
    values,       \* the ordered value sequence of the call (matrix index)
    candidates,   \* the ordered candidate sequence of the call (matrix columns)
    scores,       \* the score matrix: <<value, candidate>> -> score
    index,        \* the rows of the score matrix, in order
    columns,      \* the columns of the score matrix, in order
    min_score,    \* Mapper.min_score
    cardinality,  \* Mapper.cardinality
    records,      \* the matcher's records, in processing order
    pos,          \* number of records the matcher has processed
    matches,      \* the accepted pairs (the Assignment)
    mvs,          \* values consumed by an accepted pair
    mcs,          \* candidates consumed by an accepted pair
    unmapped,     \* values left without a match
    calls,        \* history: number of calls started on the Mapper
    pc,           \* position of the call
    running,      \* the thread whose call the variables above hold
    suspended     \* the call of the other thread, while it does not run

\* The Mapper's configuration, the arguments of the call, and the scoring and
\* matching state of the call.
config == <<score_function, overrides, filter_functions, heuristics,
            unmapped_values_action, min_score, cardinality>>
args == <<values, candidates, context, override_function>>
scoring == <<scores, index, columns, row>>
matching == <<records, pos, matches, mvs, mcs>>

\* The threads calling the Mapper.
threads == <<running, suspended>>

vars == <<config, args, scoring, matching, unmapped, calls, pc, threads>>

\* The state of a call that has not started.
IdleCall ==
    [values |-> <<>>, candidates |-> <<>>, context |-> "k0",
     override_function |-> [v \in ValueNames |-> NoCandidate],
     scores |-> [p \in {} |-> 0], index |-> <<>>, columns |-> <<>>, row |-> 0,
     records |-> <<>>, pos |-> 0, matches |-> {}, mvs |-> {}, mcs |-> {},
     unmapped |-> {}, pc |-> "idle"]

ThreadIds == {"t1", "t2"}

\* ---------------------------------------------------------------- scoring
\* Variant: an override leaves the other candidates at score 0.
OverrideRow_OthersZero(cands, chosen) ==
    [c \in Range(cands) |-> IF c = chosen THEN PosInf ELSE 0]

\* Variant: an override that names no offered candidate settles nothing.
OverrideRow_UnknownIgnored(cands, chosen) ==
    [c \in Range(cands) |->
        IF c = chosen THEN PosInf
        ELSE IF chosen \in Range(cands) THEN NegInf ELSE 0]

\* The row of a value settled by an override: +inf for the chosen candidate,
\* -inf for the others.
OverrideRow(cands, chosen) ==
    [c \in Range(cands) |-> IF c = chosen THEN PosInf ELSE NegInf]

\* Variant: the default level is looked up before the context's level.
StaticOverride_DefaultFirst(table, ctx, v) ==
    IF table.default[v] # NoCandidate
    THEN table.default[v]
    ELSE table.specific[ctx][v]

\* The static override of a value: the entry of the context's level if there
\* is one, else the entry of the default level.
StaticOverride(table, ctx, v) ==
    IF table.specific[ctx][v] # NoCandidate
    THEN table.specific[ctx][v]
    ELSE table.default[v]

\* Variant: only the last filter is applied.
Rejected_LastFilter(filters, v) ==
    IF filters = <<>> THEN {} ELSE filters[Len(filters)][v]

\* The candidates the filters reject for a value: the union over the filters.
Rejected(filters, v) ==
    UNION {filters[i][v] : i \in DOMAIN filters}

Max(a, b) == IF a >= b THEN a ELSE b

\* Variant: the returned candidates get the highest finite score.
ShortCircuitRow_Finite(kept, returned) ==
    [c \in kept |-> IF c \in returned THEN MaxScore ELSE NegInf]

\* The row a short-circuit step settles: +inf for the returned candidates,
\* -inf for the others.
ShortCircuitRow(kept, returned) ==
    [c \in kept |-> IF c \in returned THEN PosInf ELSE NegInf]

\* Variant: the penalty is taken from the best score after the comparison.
Penalised_AfterMax(best, score, position) ==
    Max(best, score) - PositionalPenalty * position

\* The best score of a pair after an alias step at a position: the larger of
\* the best score so far and the step's score less the positional penalty.
Penalised(best, score, position) ==
    Max(best, score - PositionalPenalty * position)

\* Variant: the steps after a short-circuit step that fired are applied too.
RECURSIVE ApplySteps_Continue(_, _, _, _, _, _, _)
ApplySteps_Continue(fn, steps, i, kept, wv, wc, best) ==
    IF i > Len(steps) THEN best
    ELSE LET step == steps[i]
             nv == step.value[wv]
             nc == [c \in kept |-> step.candidate[wc[c]]]
         IN IF step.kind = "short_circuit"
            THEN ApplySteps_Continue(fn, steps, i + 1, kept, wv, wc,
                                     IF step.returns[wv] # {}
                                     THEN ShortCircuitRow(kept, step.returns[wv])
                                     ELSE best)
            ELSE ApplySteps_Continue(fn, steps, i + 1, kept,
                                     IF step.mutate THEN nv ELSE wv,
                                     IF step.mutate THEN nc ELSE wc,
                                     [c \in kept |-> Penalised(best[c], fn[<<nv, nc[c]>>], i)])

\* Variant: the rewrite of an alias step is always discarded after scoring.
RECURSIVE ApplySteps_NeverMutate(_, _, _, _, _, _, _)
ApplySteps_NeverMutate(fn, steps, i, kept, wv, wc, best) ==
    IF i > Len(steps) THEN best
    ELSE LET step == steps[i]
             nv == step.value[wv]
             nc == [c \in kept |-> step.candidate[wc[c]]]
         IN IF step.kind = "short_circuit"
            THEN IF step.returns[wv] # {}
                 THEN ShortCircuitRow(kept, step.returns[wv])
                 ELSE ApplySteps_NeverMutate(fn, steps, i + 1, kept, wv, wc, best)
            ELSE ApplySteps_NeverMutate(fn, steps, i + 1, kept, wv, wc,
                                        [c \in kept |-> Penalised(best[c], fn[<<nv, nc[c]>>], i)])

\* HeuristicScore, from step i on: wv and wc are the working value and the
\* working candidates (by the candidate they rewrite), best the best scores
\* so far.
RECURSIVE ApplySteps(_, _, _, _, _, _, _)
ApplySteps(fn, steps, i, kept, wv, wc, best) ==
    IF i > Len(steps) THEN best
    ELSE LET step == steps[i]
             nv == step.value[wv]
             nc == [c \in kept |-> step.candidate[wc[c]]]
         IN IF step.kind = "short_circuit"
            THEN IF step.returns[wv] # {}
                 THEN ShortCircuitRow(kept, step.returns[wv])
                 ELSE ApplySteps(fn, steps, i + 1, kept, wv, wc, best)
            ELSE ApplySteps(fn, steps, i + 1, kept,
                            IF step.mutate THEN nv ELSE wv,
                            IF step.mutate THEN nc ELSE wc,
                            [c \in kept |-> Penalised(best[c], fn[<<nv, nc[c]>>], i)])

\* HeuristicScore on a value and the candidates the filters kept: the base
\* scores, then the steps in order.
HeuristicScore(fn, steps, kept, v) ==
    ApplySteps(fn, steps, 1, kept, v, [c \in kept |-> c], [c \in kept |-> fn[<<v, c>>]])

\* Variant: the score function is called on the rejected candidates too.
ScoredRow_Unfiltered(fn, steps, filters, cands, v) ==
    HeuristicScore(fn, steps, Range(cands), v)

\* Variant: a +inf of the heuristics stands also for a rejected candidate.
ScoredRow_ShortCircuitOverFilter(fn, steps, filters, cands, v) ==
    LET all == HeuristicScore(fn, steps, Range(cands), v)
    IN [c \in Range(cands) |->
           IF c \in Rejected(filters, v) /\ all[c] # PosInf THEN NegInf ELSE all[c]]

\* The row of a value not settled by an override: -inf for the candidates
\* the filters reject, the score function's score, with its heuristics, for
\* the others.
ScoredRow(fn, steps, filters, cands, v) ==
    LET kept == Range(cands) \ Rejected(filters, v)
    IN [c \in Range(cands) |->
           IF c \in kept THEN HeuristicScore(fn, steps, kept, v)[c] ELSE NegInf]

\* Variant: the static override is looked up before the runtime override.
RowOf_StaticFirst(fn, steps, table, filters, ctx, runtime, cands, v) ==
    IF StaticOverride(table, ctx, v) # NoCandidate
    THEN OverrideRow(cands, StaticOverride(table, ctx, v))
    ELSE IF runtime[v] # NoCandidate
    THEN OverrideRow(cands, runtime[v])
    ELSE ScoredRow(fn, steps, filters, cands, v)

\* Variant: the filters are applied to the rows of overridden values too.
RowOf_FiltersFirst(fn, steps, table, filters, ctx, runtime, cands, v) ==
    LET r == IF runtime[v] # NoCandidate
             THEN OverrideRow(cands, runtime[v])
             ELSE IF StaticOverride(table, ctx, v) # NoCandidate
             THEN OverrideRow(cands, StaticOverride(table, ctx, v))
             ELSE ScoredRow(fn, steps, filters, cands, v)
    IN [c \in Range(cands) |-> IF c \in Rejected(filters, v) THEN NegInf ELSE r[c]]

\* The row of a value: runtime override, else static override, else filters
\* and the score function.
RowOf(fn, steps, table, filters, ctx, runtime, cands, v) ==
    IF runtime[v] # NoCandidate
    THEN OverrideRow(cands, runtime[v])
    ELSE IF StaticOverride(table, ctx, v) # NoCandidate
    THEN OverrideRow(cands, StaticOverride(table, ctx, v))
    ELSE ScoredRow(fn, steps, filters, cands, v)

\* Variant: a column of the +inf of the new row is set to -inf in the rows
\* already built.
WithRow_ColumnToo(mat, cands, v, r) ==
    [p \in DOMAIN mat \cup ({v} \X Range(cands)) |->
        IF p[1] = v THEN r[p[2]]
        ELSE IF r[p[2]] = PosInf THEN NegInf ELSE mat[p]]

\* A score matrix with the row of a value set.
WithRow(mat, cands, v, r) ==
    [p \in DOMAIN mat \cup ({v} \X Range(cands)) |->
        IF p[1] = v THEN r[p[2]] ELSE mat[p]]

\* Variant: the new row is put first.
AppendRow_First(idx, v) == <<v>> \o idx

\* The rows of the score matrix with the row of a value added: rows are in
\* the order in which the values are given.
AppendRow(idx, v) == Append(idx, v)

\* The empty score matrix and the state of a call that has not started.
NoScores == [p \in {} |-> 0]

\* Mapper.apply(values, candidates, context, override_function): the call
\* starts with a fresh score matrix.
Apply ==
    /\ pc = "idle"
    /\ calls < MaxCalls
    /\ calls' = calls + 1
    /\ values' \in {<<"v0", "v1">>}
    /\ candidates' \in {<<"c0", "c1">>}
    /\ context' \in Contexts
    /\ override_function' \in OverrideFunctions
    /\ scores' = NoScores
    /\ index' = <<>>
    /\ columns' = <<>>
    /\ row' = 0
    /\ pc' = "scoring"
    /\ UNCHANGED <<threads, config, matching, unmapped>>

\* Mapper.compute_scores, one value: compute the value's row.
ComputeScores ==
    /\ pc = "scoring"
    /\ row < Len(values)
    /\ LET v == values[row + 1]
       IN scores' = WithRow(scores, candidates, v,
                            RowOf(score_function, heuristics, overrides, filter_functions,
                                  context, override_function, candidates, v))
    /\ index' = AppendRow(index, values[row + 1])
    /\ columns' = candidates
    /\ row' = row + 1
    /\ pc' = IF row + 1 = Len(values) THEN "scored" ELSE "scoring"
    /\ UNCHANGED <<threads, config, args, matching, unmapped, calls>>

\* -------------------------------------------------------------- matching
\* Variant: among equal scores the candidate order is used before the value
\* order.
Precedes_CandidateFirst(mat, vals, cands, p, q) ==
    \/ mat[p] > mat[q]
    \/ /\ mat[p] = mat[q]
       /\ IndexOf(cands, p[2]) < IndexOf(cands, q[2])
    \/ /\ mat[p] = mat[q]
       /\ p[2] = q[2]
       /\ IndexOf(vals, p[1]) < IndexOf(vals, q[1])

\* Variant: lower score first.
Precedes_Ascending(mat, vals, cands, p, q) ==
    \/ mat[p] < mat[q]
    \/ /\ mat[p] = mat[q]
       /\ IndexOf(vals, p[1]) < IndexOf(vals, q[1])
    \/ /\ mat[p] = mat[q]
       /\ p[1] = q[1]
       /\ IndexOf(cands, p[2]) < IndexOf(cands, q[2])

\* Variant: the records are processed in input order, whatever their scores.
Precedes_InputOrder(mat, vals, cands, p, q) ==
    \/ IndexOf(vals, p[1]) < IndexOf(vals, q[1])
    \/ /\ p[1] = q[1]
       /\ IndexOf(cands, p[2]) < IndexOf(cands, q[2])

\* Processing order of two pairs of a score matrix: higher score first;
\* among equal scores the earlier value; then the earlier candidate.
Precedes(mat, vals, cands, p, q) ==
    \/ mat[p] > mat[q]
    \/ /\ mat[p] = mat[q]
       /\ IndexOf(vals, p[1]) < IndexOf(vals, q[1])
    \/ /\ mat[p] = mat[q]
       /\ p[1] = q[1]
       /\ IndexOf(cands, p[2]) < IndexOf(cands, q[2])

\* The pairs of the matrix as a sequence sorted by Precedes.
SortedRecords(mat, vals, cands) ==
    LET ps == Pairs(vals, cands)
        rank(p) == Cardinality({q \in ps : Precedes(mat, vals, cands, q, p)})
    IN [i \in 1..Cardinality(ps) |-> CHOOSE p \in ps : rank(p) = i - 1]

\* Variant: the limit itself is excluded.
AboveLimit_Strict(mat, limit, p) == mat[p] > limit

\* A pair at or above the score limit.
\* Variant: a negative limit accepts every score.
AboveLimit_NegativeAcceptsAll(mat, limit, p) == limit < 0 \/ mat[p] >= limit

AboveLimit(mat, limit, p) == mat[p] >= limit

\* Variant: ManyToOne does not make values exclusive.
ValueExclusive_OnlyOneToOne(card) == card = OneToOne

\* The policy makes values exclusive: a value holds at most one candidate.
\* Variant: OneToMany claims the value too.
ValueExclusive_AlsoOneToMany(card) == card \in {OneToOne, ManyToOne, OneToMany}

ValueExclusive(card) == card \in {OneToOne, ManyToOne}

\* Variant: ManyToOne makes candidates exclusive too.
CandidateExclusive_AlsoManyToOne(card) == card \in {OneToOne, OneToMany, ManyToOne}

\* Variants: one of the two policies does not make candidates exclusive.
CandidateExclusive_OnlyOneToMany(card) == card = OneToMany
CandidateExclusive_OnlyOneToOne(card) == card = OneToOne

\* The policy makes candidates exclusive: a candidate has at most one value.
CandidateExclusive(card) == card \in {OneToOne, OneToMany}

\* Variant: a consumed candidate supersedes under every policy.
Superseded_AnyCandidate(card, consumedValues, consumedCandidates, p) ==
    \/ ValueExclusive(card) /\ p[1] \in consumedValues
    \/ p[2] \in consumedCandidates

\* A record is superseded by an earlier accepted match.
Superseded(card, consumedValues, consumedCandidates, p) ==
    \/ ValueExclusive(card) /\ p[1] \in consumedValues
    \/ CandidateExclusive(card) /\ p[2] \in consumedCandidates

\* Variant: the score limit is not applied.
Accepts_NoLimit(mat, limit, card, consumedValues, consumedCandidates, p) ==
    ~Superseded(card, consumedValues, consumedCandidates, p)

\* The decision on one record.
Accepts(mat, limit, card, consumedValues, consumedCandidates, p) ==
    /\ AboveLimit(mat, limit, p)
    /\ ~Superseded(card, consumedValues, consumedCandidates, p)

\* The whole matching pass as a function: the pairs accepted from record i
\* on, given the pairs accepted so far.
RECURSIVE Pass(_, _, _, _, _, _)
Pass(mat, limit, card, recs, i, accepted) ==
    IF i > Len(recs) THEN accepted
    ELSE Pass(mat, limit, card, recs, i + 1,
              IF Accepts(mat, limit, card, {q[1] : q \in accepted},
                         {q[2] : q \in accepted}, recs[i])
              THEN accepted \cup {recs[i]}
              ELSE accepted)

\* Mapper.to_directional_mapping as a function of the score matrix, the
\* minimum score and the cardinality.
DirectionalMapping(mat, limit, card, vals, cands) ==
    Pass(mat, limit, card, SortedRecords(mat, vals, cands), 1, {})

\* Values without an accepted pair.
UnmappedValues(vals, accepted) ==
    {v \in Range(vals) : ~\E p \in accepted : p[1] = v}

\* Mapper.to_directional_mapping(scores): sort the records, start the pass.
ToDirectionalMapping ==
    /\ pc = "scored"
    /\ records' = SortedRecords(scores, values, candidates)
    /\ pos' = 0
    /\ matches' = {}
    /\ mvs' = {}
    /\ mcs' = {}
    /\ pc' = "matching"
    /\ UNCHANGED <<threads, config, args, scoring, unmapped, calls>>

\* Variant: a record at or above the limit is always accepted, and the
\* accepted pairs it conflicts with are revoked.
MatchRecord_Revoking ==
    /\ pc = "matching"
    /\ pos < Len(records)
    /\ LET p == records[pos + 1]
           kept == {q \in matches :
                      /\ ~(ValueExclusive(cardinality) /\ q[1] = p[1])
                      /\ ~(CandidateExclusive(cardinality) /\ q[2] = p[2])}
       IN IF AboveLimit(scores, min_score, p)
          THEN /\ matches' = kept \cup {p}
               /\ mvs' = {q[1] : q \in kept \cup {p}}
               /\ mcs' = {q[2] : q \in kept \cup {p}}
          ELSE UNCHANGED <<matches, mvs, mcs>>
    /\ pos' = pos + 1
    /\ UNCHANGED <<threads, config, args, scoring, records, unmapped, calls, pc>>

\* One iteration of the matching pass: decide the next record.
MatchRecord ==
    /\ pc = "matching"
    /\ pos < Len(records)
    /\ LET p == records[pos + 1]
       IN IF Accepts(scores, min_score, cardinality, mvs, mcs, p)
          THEN /\ matches' = matches \cup {p}
               /\ mvs' = mvs \cup {p[1]}
               /\ mcs' = mcs \cup {p[2]}
          ELSE UNCHANGED <<matches, mvs, mcs>>
    /\ pos' = pos + 1
    /\ UNCHANGED <<threads, config, args, scoring, records, unmapped, calls, pc>>

\* Variant: a warning is an error too.
Raises_OnWarn(action, left) == action \in {"raise", "warn"} /\ left # {}

\* The call ends with an error: the action is 'raise' and values are left
\* unmapped.
Raises(action, left) == action = "raise" /\ left # {}

\* End of the pass: the unmapped values are those without a match; the call
\* raises or ends normally.
FinishMatching ==
    /\ pc = "matching"
    /\ pos = Len(records)
    /\ unmapped' = UnmappedValues(values, matches)
    /\ pc' = IF Raises(unmapped_values_action, unmapped') THEN "raised" ELSE "done"
    /\ UNCHANGED <<threads, config, args, scoring, matching, calls>>

\* The call returns: its result is handed to the caller and the state of the
\* call is gone.
Return ==
    /\ pc \in {"done", "raised"}
    /\ values' = <<>>
    /\ candidates' = <<>>
    /\ context' = "k0"
    /\ override_function' = [v \in ValueNames |-> NoCandidate]
    /\ scores' = NoScores
    /\ index' = <<>>
    /\ columns' = <<>>
    /\ row' = 0
    /\ records' = <<>>
    /\ pos' = 0
    /\ matches' = {}
    /\ mvs' = {}
    /\ mcs' = {}
    /\ unmapped' = {}
    /\ pc' = "idle"
    /\ UNCHANGED <<threads, config, calls>>

\* ------------------------------------------------------------ Mapper.apply
\* A Mapper is constructed with its configuration; calls follow each other.
Init ==
    /\ score_function \in ScoreFunctions
    /\ overrides \in OverrideTables
    /\ filter_functions \in FilterLists
    /\ heuristics = <<>>
    /\ unmapped_values_action = "ignore"
    /\ min_score \in MinScores
    /\ cardinality \in Cardinalities
    /\ values = <<>>
    /\ candidates = <<>>
    /\ context = "k0"
    /\ override_function = [v \in ValueNames |-> NoCandidate]
    /\ scores = NoScores
    /\ index = <<>>
    /\ columns = <<>>
    /\ row = 0
    /\ records = <<>>
    /\ pos = 0
    /\ matches = {}
    /\ mvs = {}
    /\ mcs = {}
    /\ unmapped = {}
    /\ calls = 0
    /\ running = "t1"
    /\ suspended = IdleCall
    /\ pc = "idle"

Next ==
    \/ Apply
    \/ ComputeScores
    \/ ToDirectionalMapping
    \/ MatchRecord
    \/ FinishMatching
    \/ Return

Spec == Init /\ [][Next]_vars

\* ------------------------------------------- the matcher on given scores
\* Mapper.to_directional_mapping invoked on a precomputed score matrix.
InitMatch ==
    /\ score_function = [p \in ValueNames \X CandidateNames |-> 0]
    /\ overrides = NoOverrides
    /\ filter_functions = <<>>
    /\ heuristics = <<>>
    /\ unmapped_values_action = "ignore"
    /\ context = "k0"
    /\ override_function = [v \in ValueNames |-> NoCandidate]
    /\ row = Cardinality(ValueNames)
    /\ values \in Orderings(ValueNames)
    /\ candidates \in Orderings(CandidateNames)
    /\ scores \in [ValueNames \X CandidateNames -> Scores]
    /\ index = values
    /\ columns = candidates
    /\ min_score \in MinScores
    /\ cardinality \in Cardinalities
    /\ records = <<>>
    /\ pos = 0
    /\ matches = {}
    /\ mvs = {}
    /\ mcs = {}
    /\ unmapped = {}
    /\ calls = 1
    /\ running = "t1"
    /\ suspended = IdleCall
    /\ pc = "scored"

NextMatch ==
    \/ ToDirectionalMapping
    \/ MatchRecord
    \/ FinishMatching

SpecMatch == InitMatch /\ [][NextMatch]_vars

\* ------------------------------------------------------- concurrent calls
\* The value sequences and score functions of the concurrent calls.
ValueSequences == {<<"v0", "v1">>, <<"v1">>}

ThreadScoreFunctions ==
    {f \in AliasScoreFunctions :
        \A c \in CandidateNames :
            /\ f[<<"w0", c>>] = f[<<"v0", c>>]
            /\ f[<<"v1", c>>] = MaxScore - f[<<"v0", c>>]}

\* Mapper.apply called by the running thread, without runtime overrides.
ApplyIndependent ==
    /\ pc = "idle"
    /\ calls < MaxCalls
    /\ calls' = calls + 1
    /\ values' \in ValueSequences
    /\ candidates' \in Orderings(CandidateNames)
    /\ context' \in Contexts
    /\ override_function' = [v \in ValueNames |-> NoCandidate]
    /\ scores' = NoScores
    /\ index' = <<>>
    /\ columns' = <<>>
    /\ row' = 0
    /\ pc' = "scoring"
    /\ UNCHANGED <<threads, config, matching, unmapped>>

\* The call of the running thread, as a record.
RunningCall ==
    [values |-> values, candidates |-> candidates, context |-> context,
     override_function |-> override_function,
     scores |-> scores, index |-> index, columns |-> columns, row |-> row,
     records |-> records, pos |-> pos, matches |-> matches, mvs |-> mvs, mcs |-> mcs,
     unmapped |-> unmapped, pc |-> pc]

\* Variant: the candidates are kept on the Mapper, where both threads read
\* and write them.
Switch_SharedCandidates ==
    /\ running' = CHOOSE t \in ThreadIds : t # running
    /\ suspended' = RunningCall
    /\ values' = suspended.values
    /\ candidates' = candidates
    /\ context' = suspended.context
    /\ override_function' = suspended.override_function
    /\ scores' = suspended.scores
    /\ index' = suspended.index
    /\ columns' = suspended.columns
    /\ row' = suspended.row
    /\ records' = suspended.records
    /\ pos' = suspended.pos
    /\ matches' = suspended.matches
    /\ mvs' = suspended.mvs
    /\ mcs' = suspended.mcs
    /\ unmapped' = suspended.unmapped
    /\ pc' = suspended.pc
    /\ UNCHANGED <<config, calls>>

\* The scheduler runs the other thread: the call of the running thread is
\* set aside as it is, and the other thread's call goes on where it was.
Switch ==
    /\ running' = CHOOSE t \in ThreadIds : t # running
    /\ suspended' = RunningCall
    /\ values' = suspended.values
    /\ candidates' = suspended.candidates
    /\ context' = suspended.context
    /\ override_function' = suspended.override_function
    /\ scores' = suspended.scores
    /\ index' = suspended.index
    /\ columns' = suspended.columns
    /\ row' = suspended.row
    /\ records' = suspended.records
    /\ pos' = suspended.pos
    /\ matches' = suspended.matches
    /\ mvs' = suspended.mvs
    /\ mcs' = suspended.mcs
    /\ unmapped' = suspended.unmapped
    /\ pc' = suspended.pc
    /\ UNCHANGED <<config, calls>>

\* Two threads call one Mapper; their steps interleave in any order.
InitThreads ==
    /\ score_function \in ThreadScoreFunctions
    /\ overrides \in {NoOverrides, ContextOverrides}
    /\ filter_functions = <<>>
    /\ heuristics \in {<<>>, <<AliasStep(ValueToAlias, NoCandidateRewrite, TRUE),
                               ShortCircuitStep(ShortCircuitReturns)>>}
    /\ unmapped_values_action = "ignore"
    /\ min_score = 1
    /\ cardinality \in Cardinalities
    /\ values = <<>>
    /\ candidates = <<>>
    /\ context = "k0"
    /\ override_function = [v \in ValueNames |-> NoCandidate]
    /\ scores = NoScores
    /\ index = <<>>
    /\ columns = <<>>
    /\ row = 0
    /\ records = <<>>
    /\ pos = 0
    /\ matches = {}
    /\ mvs = {}
    /\ mcs = {}
    /\ unmapped = {}
    /\ calls = 0
    /\ pc = "idle"
    /\ running = "t1"
    /\ suspended = IdleCall

NextThreads ==
    \/ ApplyIndependent
    \/ ComputeScores
    \/ ToDirectionalMapping
    \/ MatchRecord
    \/ FinishMatching
    \/ Switch

SpecThreads == InitThreads /\ [][NextThreads]_vars

\* --------------------------------------------- the unmapped values action
\* The matcher on a precomputed score matrix, for every
\* unmapped_values_action.
InitAction ==
    /\ score_function = [p \in ValueNames \X CandidateNames |-> 0]
    /\ overrides = NoOverrides
    /\ filter_functions = <<>>
    /\ heuristics = <<>>
    /\ unmapped_values_action \in UnmappedValuesActions
    /\ context = "k0"
    /\ override_function = [v \in ValueNames |-> NoCandidate]
    /\ row = Cardinality(ValueNames)
    /\ values = <<"v0", "v1">>
    /\ candidates = <<"c0", "c1">>
    /\ scores \in [ValueNames \X CandidateNames -> Scores]
    /\ index = values
    /\ columns = candidates
    /\ min_score \in MinScores
    /\ cardinality \in Cardinalities
    /\ records = <<>>
    /\ pos = 0
    /\ matches = {}
    /\ mvs = {}
    /\ mcs = {}
    /\ unmapped = {}
    /\ calls = 1
    /\ running = "t1"
    /\ suspended = IdleCall
    /\ pc = "scored"

SpecAction == InitAction /\ [][NextMatch]_vars

\* ------------------------------------------------ scoring with heuristics
\* A call without runtime overrides on a Mapper whose score function has
\* heuristic steps.
InitHeur ==
    /\ score_function \in AliasScoreFunctions
    /\ overrides \in {NoOverrides, DefaultOverrides}
    /\ filter_functions \in FilterLists
    /\ heuristics \in HeuristicLists
    /\ unmapped_values_action = "ignore"
    /\ min_score \in HeuristicMinScores
    /\ cardinality \in Cardinalities
    /\ values = <<"v0", "v1">>
    /\ candidates = <<"c0", "c1">>
    /\ context = "k0"
    /\ override_function = [v \in ValueNames |-> NoCandidate]
    /\ scores = NoScores
    /\ index = <<>>
    /\ columns = <<>>
    /\ row = 0
    /\ records = <<>>
    /\ pos = 0
    /\ matches = {}
    /\ mvs = {}
    /\ mcs = {}
    /\ unmapped = {}
    /\ calls = 1
    /\ running = "t1"
    /\ suspended = IdleCall
    /\ pc = "scoring"

NextHeur ==
    \/ ComputeScores
    \/ ToDirectionalMapping
    \/ MatchRecord
    \/ FinishMatching

SpecHeur == InitHeur /\ [][NextHeur]_vars

\* ------------------------------------------------------------ properties
\* The pairs of the call's score matrix.
AllPairs == Pairs(values, candidates)

\* The matching pass is running or has ended.
InPass == pc \in {"matching", "done"}

NoValueTwice == \A p, q \in matches : p # q => p[1] # q[1]
NoCandidateTwice == \A p, q \in matches : p # q => p[2] # q[2]

\* C1: under OneToOne, in every state of the matching pass and in the final
\* Assignment, no value and no candidate is in more than one accepted pair,
\* for every score matrix and every minimum score.
C1_OneToOneExclusive ==
    (InPass /\ cardinality = OneToOne) => (NoValueTwice /\ NoCandidateTwice)

\* C1 witness: a finished OneToOne pass over a matrix with two +inf entries in
\* one row and two +inf entries in one column, where one pair was accepted.
C1_Witness ==
    /\ pc = "done"
    /\ cardinality = OneToOne
    /\ \E v \in ValueNames : \A c \in CandidateNames : scores[<<v, c>>] = PosInf
    /\ \E c \in CandidateNames : \A v \in ValueNames : scores[<<v, c>>] = PosInf
    /\ matches # {}
    /\ \E p \in AllPairs : scores[p] = PosInf /\ p \notin matches

\* C2: under ManyToOne, in every state of the matching pass and in the final
\* Assignment, no value is in more than one accepted pair.
C2_ManyToOneValueOnce ==
    (InPass /\ cardinality = ManyToOne) => NoValueTwice

\* C2 witness: a finished ManyToOne pass where a value has a row of tied
\* scores at the limit or of +inf entries, one of them accepted, the other not,
\* and a candidate is held by two values.
C2_Witness ==
    /\ pc = "done"
    /\ cardinality = ManyToOne
    /\ \E v \in ValueNames :
          /\ \A c, d \in CandidateNames : scores[<<v, c>>] = scores[<<v, d>>]
          /\ \A c \in CandidateNames : scores[<<v, c>>] >= min_score
          /\ \E c, d \in CandidateNames : <<v, c>> \in matches /\ <<v, d>> \notin matches
    /\ ~NoCandidateTwice

\* C3: under OneToMany, in every state of the matching pass and in the final
\* Assignment, no candidate is in more than one accepted pair.
C3_OneToManyCandidateOnce ==
    (InPass /\ cardinality = OneToMany) => NoCandidateTwice

\* C3 witness: a finished OneToMany pass where one value holds two candidates
\* and an acceptable pair of the other value was refused.
C3_Witness ==
    /\ pc = "done"
    /\ cardinality = OneToMany
    /\ ~NoValueTwice
    /\ \E p \in AllPairs : scores[p] >= min_score /\ p \notin matches

\* C4: under ManyToMany the final Assignment contains every pair whose score
\* is at or above the minimum score.
C4_ManyToManyKeepsAll ==
    (pc = "done" /\ cardinality = ManyToMany) =>
        \A p \in AllPairs : scores[p] >= min_score => p \in matches

\* C4 witness: a finished ManyToMany pass where an accepted pair has a score
\* equal to the minimum score, another accepted pair is +inf, and the pair at
\* the limit shares its value and its candidate with other accepted pairs.
C4_Witness ==
    /\ pc = "done"
    /\ cardinality = ManyToMany
    /\ \E p \in matches :
          /\ scores[p] = min_score
          /\ \E q \in matches : q # p /\ q[1] = p[1]
          /\ \E q \in matches : q # p /\ q[2] = p[2]
    /\ \E p \in matches : scores[p] = PosInf

\* C5: under every cardinality, no pair whose finite score is strictly below
\* the minimum score is ever in the Assignment.
C5_BelowLimitNeverAccepted ==
    \A p \in matches : ~(scores[p] \in FiniteScores /\ scores[p] < min_score)

\* C5 witness: a finished pass in which a pair with a finite score below the
\* minimum score was reached and refused although its value and its
\* candidate were never consumed.
C5_Witness ==
    /\ pc = "done"
    /\ \E p \in AllPairs :
          /\ scores[p] \in FiniteScores
          /\ scores[p] < min_score
          /\ p[1] \notin mvs
          /\ p[2] \notin mcs
          /\ p \notin matches

\* The order stated for the matcher: higher score first, then the earlier
\* value, then the earlier candidate of the input sequences.
StatedOrder(p, q) ==
    \/ scores[p] > scores[q]
    \/ /\ scores[p] = scores[q]
       /\ IndexOf(values, p[1]) < IndexOf(values, q[1])
    \/ /\ scores[p] = scores[q]
       /\ p[1] = q[1]
       /\ IndexOf(candidates, p[2]) < IndexOf(candidates, q[2])

\* Two distinct pairs at or above the minimum score that the policy does not
\* allow to be accepted together.
Conflict(p, q) ==
    /\ p # q
    /\ scores[p] >= min_score
    /\ scores[q] >= min_score
    /\ \/ cardinality \in {"OneToOne", "ManyToOne"} /\ p[1] = q[1]
       \/ cardinality \in {"OneToOne", "OneToMany"} /\ p[2] = q[2]

\* The records are considered in the stated order, and only considered
\* records are accepted.
ConsideredInStatedOrder ==
    /\ \A i, j \in DOMAIN records : i < j => StatedOrder(records[i], records[j])
    /\ \A p \in matches : \E i \in 1..pos : records[i] = p

C9_Scenario ==
    /\ values = <<"v0", "v1">>
    /\ candidates = <<"c0", "c1">>
    /\ cardinality = ManyToOne
    /\ min_score = 1
    /\ scores[<<"v0", "c0">>] = 2
    /\ scores[<<"v0", "c1">>] = 0
    /\ scores[<<"v1", "c0">>] = 2
    /\ scores[<<"v1", "c1">>] = 2

HasViableCandidate(v) == \E c \in Range(candidates) : scores[<<v, c>>] >= min_score

C6_RuntimeOverrideNotContradicted ==
    InPass =>
        \A v \in Range(values) :
            override_function[v] # NoCandidate =>
                \A p \in matches : p[1] = v => p[2] = override_function[v]

\* C6 witness: a finished ManyToMany call where the runtime override names c0
\* for v0, the override table names c1 for v0, the score function gives
\* (v0, c1) the top score and (v0, c0) the lowest, and (v0, c0) was accepted.
C6_Witness ==
    /\ pc = "done"
    /\ cardinality = ManyToMany
    /\ override_function["v0"] = "c0"
    /\ StaticOverride(overrides, context, "v0") = "c1"
    /\ score_function[<<"v0", "c1">>] = MaxScore
    /\ score_function[<<"v0", "c0">>] = 0
    /\ min_score = 1
    /\ <<"v0", "c0">> \in matches

\* The candidate forced for a value by the inputs of the call, if any: the
\* runtime override, else the context's static override, else the default
\* static override.
Forced(v) ==
    IF override_function[v] # NoCandidate THEN override_function[v]
    ELSE IF overrides.specific[context][v] # NoCandidate
    THEN overrides.specific[context][v]
    ELSE overrides.default[v]

\* The score matrix as a function of the inputs of the call.
ScoresOfInputs ==
    [p \in AllPairs |->
        IF Forced(p[1]) # NoCandidate
        THEN (IF p[2] = Forced(p[1]) THEN PosInf ELSE NegInf)
        ELSE IF \E i \in DOMAIN filter_functions : p[2] \in filter_functions[i][p[1]]
        THEN NegInf
        ELSE score_function[p]]

\* Two distinct pairs the policy does not allow together, and their order,
\* on the matrix of the inputs.
ExcludesOfInputs(q, p) ==
    /\ q # p
    /\ \/ cardinality \in {"OneToOne", "ManyToOne"} /\ q[1] = p[1]
       \/ cardinality \in {"OneToOne", "OneToMany"} /\ q[2] = p[2]
    /\ \/ ScoresOfInputs[q] > ScoresOfInputs[p]
       \/ /\ ScoresOfInputs[q] = ScoresOfInputs[p]
          /\ IndexOf(values, q[1]) < IndexOf(values, p[1])
       \/ /\ ScoresOfInputs[q] = ScoresOfInputs[p]
          /\ q[1] = p[1]
          /\ IndexOf(candidates, q[2]) < IndexOf(candidates, p[2])

\* The Assignment as a function of the inputs of the call: the one set of
\* pairs at or above the minimum score that holds a pair exactly if it holds
\* no earlier pair excluding it.
MatchesOfInputs ==
    LET viable == {p \in AllPairs : ScoresOfInputs[p] >= min_score}
    IN CHOOSE A \in SUBSET viable :
          \A p \in viable : p \in A <=> ~\E q \in A : ExcludesOfInputs(q, p)

\* The unmapped set as a function of the inputs of the call.
UnmappedOfInputs ==
    {v \in Range(values) : \A p \in MatchesOfInputs : p[1] # v}

C19_Scenario ==
    /\ values = <<"v0", "v1">>
    /\ candidates = <<"c0", "c1">>
    /\ cardinality = OneToOne
    /\ min_score = 1
    /\ scores[<<"v0", "c0">>] = 1
    /\ scores[<<"v0", "c1">>] = 1
    /\ scores[<<"v1", "c0">>] = 1
    /\ scores[<<"v1", "c1">>] = 0

\* A step of the matching pass keeps every accepted pair and accepts no
\* record the pass has already decided against.
C19_StepKeepsDecisions ==
    (pc = "matching" /\ pc' \in {"matching", "done"}) =>
        /\ matches \subseteq matches'
        /\ \A i \in 1..pos : records[i] \notin matches => records[i] \notin matches'

C20_InfiniteFirstAndAccepted ==
    (InPass /\ cardinality # ManyToMany) =>
        /\ \A i, j \in DOMAIN records :
              (i < j /\ scores[records[j]] = PosInf) => scores[records[i]] = PosInf
        /\ pc = "done" =>
              \A p \in AllPairs :
                  scores[p] = PosInf =>
                      \/ p \in matches
                      \/ \E q \in matches :
                            /\ scores[q] = PosInf
                            /\ StatedOrder(q, p)
                            /\ \/ cardinality \in {"OneToOne", "ManyToOne"} /\ q[1] = p[1]
                               \/ cardinality \in {"OneToOne", "OneToMany"} /\ q[2] = p[2]

\* C20 witness: a finished OneToOne pass with a minimum score above every
\* finite score, where a +inf pair was accepted, another +inf pair was refused,
\* and a finite-score pair with a free value and candidate was refused.
C20_Witness ==
    /\ pc = "done"
    /\ cardinality = OneToOne
    /\ min_score = MaxScore + 1
    /\ \E p \in matches : scores[p] = PosInf
    /\ \E p \in AllPairs : scores[p] = PosInf /\ p \notin matches
    /\ \E p \in AllPairs : scores[p] = MaxScore /\ p[1] \notin mvs /\ p[2] \notin mcs

\* The score matrix of the call is complete.
Scored == pc \in {"scored", "matching", "done"}

\* The pairs of a value in the Assignment.
MatchesOf(v) == {p \in matches : p[1] = v}

\* C12: when the override table maps a value to an offered candidate and no
\* runtime override fires for the value, the pair scores +inf and the value's
\* other pairs score -inf; under ManyToOne and ManyToMany the Assignment holds
\* exactly that pair for the value, whatever the score function returns.
C12_StaticOverrideForcesMatch ==
    \A v \in ValueNames :
        LET c == StaticOverride(overrides, context, v)
        IN (Scored /\ override_function[v] = NoCandidate /\ c \in Range(candidates)) =>
              /\ scores[<<v, c>>] = PosInf
              /\ \A d \in Range(candidates) \ {c} : scores[<<v, d>>] = NegInf
              /\ (pc = "done" /\ cardinality \in {ManyToOne, ManyToMany}) =>
                    MatchesOf(v) = {<<v, c>>}

\* C12 witness: a finished ManyToMany call where the table forces v0 -> c1
\* although the score function scores (v0, c1) lowest, and v1 took c1 too.
C12_Witness ==
    /\ pc = "done"
    /\ cardinality = ManyToMany
    /\ override_function["v0"] = NoCandidate
    /\ StaticOverride(overrides, context, "v0") = "c1"
    /\ score_function[<<"v0", "c1">>] = 0
    /\ score_function[<<"v0", "c0">>] = MaxScore
    /\ min_score = 1
    /\ matches = {<<"v0", "c1">>, <<"v1", "c1">>}

\* C13: the runtime override beats the override table, the table's entry for
\* the context beats its default entry, and any override beats the filters:
\* the +inf is at the candidate of the highest level that names one, even if
\* a filter rejects that candidate.
C13_OverrideHierarchy ==
    \A v \in ValueNames :
        Scored =>
            /\ override_function[v] \in Range(candidates) =>
                  scores[<<v, override_function[v]>>] = PosInf
            /\ (override_function[v] = NoCandidate
                /\ overrides.specific[context][v] \in Range(candidates)) =>
                  scores[<<v, overrides.specific[context][v]>>] = PosInf
            /\ (override_function[v] = NoCandidate
                /\ overrides.specific[context][v] = NoCandidate
                /\ overrides.default[v] \in Range(candidates)) =>
                  scores[<<v, overrides.default[v]>>] = PosInf

\* C13 witness: the table's entry for the context (v0 -> c0) differs from
\* its default entry (v0 -> c1); the runtime override (v1 -> c0) differs from
\* the table's entry (v1 -> c1) and names a candidate the filters reject.
C13_Witness ==
    /\ Scored
    /\ override_function["v0"] = NoCandidate
    /\ overrides.specific[context]["v0"] = "c0"
    /\ overrides.default["v0"] = "c1"
    /\ scores[<<"v0", "c0">>] = PosInf
    /\ override_function["v1"] = "c0"
    /\ overrides.specific[context]["v1"] = "c1"
    /\ "c0" \in Rejected(filter_functions, "v1")
    /\ scores[<<"v1", "c0">>] = PosInf
    /\ scores[<<"v1", "c1">>] = NegInf

AllRejected(v) == Range(candidates) \subseteq Rejected(filter_functions, v)

\* C11: a value for which the filters reject every candidate, and for which
\* no override fires, scores -inf against every candidate, is in no accepted
\* pair and is unmapped, under every policy and minimum score, whatever the
\* score function and the heuristic steps return for it.
C11_FilteredValueUnmapped ==
    \A v \in ValueNames :
        (pc # "idle" /\ Forced(v) = NoCandidate /\ AllRejected(v)) =>
            /\ Scored => \A c \in Range(candidates) : scores[<<v, c>>] = NegInf
            /\ MatchesOf(v) = {}
            /\ pc = "done" => v \in unmapped

\* C11 witness: a finished ManyToMany call with the lowest minimum score; the
\* filters reject every candidate of v1, the score function gives v1 and its
\* alias the highest score, and the steps rewrite the value and short-circuit.
C11_Witness ==
    /\ pc = "done"
    /\ cardinality = ManyToMany
    /\ min_score = -1
    /\ AllRejected("v1")
    /\ \A c \in CandidateNames :
          score_function[<<"v1", c>>] = MaxScore /\ score_function[<<"w0", c>>] = MaxScore
    /\ Len(heuristics) = 2
    /\ heuristics[1].kind = "alias" /\ heuristics[1].mutate
    /\ heuristics[2].kind = "short_circuit"
    /\ "v1" \in unmapped
    /\ "v0" \notin unmapped

\* The candidates the first short-circuit step that fires returns for a
\* value, from step i on with working value wv; none if no step fires.
RECURSIVE FirstReturned(_, _, _)
FirstReturned(steps, i, wv) ==
    IF i > Len(steps) THEN {}
    ELSE IF steps[i].kind = "short_circuit"
    THEN (IF steps[i].returns[wv] # {} THEN steps[i].returns[wv]
          ELSE FirstReturned(steps, i + 1, wv))
    ELSE FirstReturned(steps, i + 1, IF steps[i].mutate THEN steps[i].value[wv] ELSE wv)

\* A short-circuit step returns candidate c for value v, and neither an
\* override nor a filter touches v.
ShortCircuited(v, c) ==
    /\ Forced(v) = NoCandidate
    /\ Rejected(filter_functions, v) = {}
    /\ c \in FirstReturned(heuristics, 1, v)

Heuristical(p) ==
    /\ Forced(p[1]) = NoCandidate
    /\ p[2] \notin Rejected(filter_functions, p[1])

\* C15 as stated: after the heuristic steps, the score of every pair is at
\* least the score the score function gives the pair.
C15_NeverBelowBaseScore ==
    Scored => \A p \in AllPairs : Heuristical(p) => scores[p] >= score_function[p]

\* C15 amended: after the heuristic steps, the score of a pair is at least
\* the score function's score for it, unless a short-circuit step fired for
\* the value and did not return the candidate: that pair scores -inf.
C15_NeverBelowBaseUnlessShortCircuited ==
    Scored =>
        \A p \in AllPairs :
            LET returned == FirstReturned(heuristics, 1, p[1])
            IN Heuristical(p) =>
                  /\ (returned = {} \/ p[2] \in returned) => scores[p] >= score_function[p]
                  /\ (returned # {} /\ p[2] \notin returned) => scores[p] = NegInf

\* C15 witness: two alias steps, the first with mutate, and no short-circuit
\* step; one pair of v1 scores above its base score and the other keeps its
\* base score, which is above the alias's score.
C15_Witness ==
    /\ Scored
    /\ Len(heuristics) = 2
    /\ heuristics[1].kind = "alias" /\ heuristics[1].mutate
    /\ heuristics[2].kind = "alias"
    /\ Heuristical(<<"v1", "c0">>)
    /\ Heuristical(<<"v1", "c1">>)
    /\ scores[<<"v1", "c0">>] > score_function[<<"v1", "c0">>]
    /\ scores[<<"v1", "c1">>] = score_function[<<"v1", "c1">>]
    /\ score_function[<<"w0", "c1">>] < score_function[<<"v1", "c1">>]

\* C27: the result of the greedy pass is maximal: at the end of a pass under
\* OneToOne, OneToMany or ManyToOne, every pair at or above the minimum score
\* that is not accepted shares its value (OneToOne, ManyToOne) or its
\* candidate (OneToOne, OneToMany) with an accepted pair that comes earlier in
\* the processing order, so no such pair has its exclusive sides unconsumed.
C27_GreedyResultMaximal ==
    (pc = "done" /\ cardinality # ManyToMany) =>
        \A p \in AllPairs :
            (scores[p] >= min_score /\ p \notin matches) =>
                /\ \E q \in matches :
                      /\ StatedOrder(q, p)
                      /\ \/ cardinality \in {"OneToOne", "ManyToOne"} /\ q[1] = p[1]
                         \/ cardinality \in {"OneToOne", "OneToMany"} /\ q[2] = p[2]
                /\ cardinality = OneToOne => (p[1] \in mvs \/ p[2] \in mcs)
                /\ cardinality = OneToMany => p[2] \in mcs
                /\ cardinality = ManyToOne => p[1] \in mvs

\* C27 witness: a finished OneToMany pass in which a pair at or above the
\* minimum score was refused on its candidate, its value having no match.
C27_Witness ==
    /\ pc = "done"
    /\ cardinality = OneToMany
    /\ \E p \in AllPairs :
          /\ scores[p] >= min_score
          /\ scores[p] < PosInf
          /\ p \notin matches
          /\ p[1] \notin mvs
          /\ p[2] \in mcs

\* C29: a pair with score -inf is never in the Assignment, under every
\* cardinality policy and for every minimum score, a negative one included.
C29_NegInfNeverAccepted ==
    \A p \in matches : scores[p] # NegInf

\* C29 witness: a finished ManyToMany pass with a negative minimum score in
\* which a -inf pair was refused although neither its value nor its candidate
\* is in any accepted pair, while a pair of score 0 was accepted.
C29_Witness ==
    /\ pc = "done"
    /\ cardinality = ManyToMany
    /\ min_score < 0
    /\ \E p \in AllPairs :
          /\ scores[p] = NegInf
          /\ p[1] \notin mvs
          /\ p[2] \notin mcs
    /\ \E q \in matches : scores[q] = 0

\* C30: raising the minimum score only removes pairs: the Assignment of a
\* pass is a subset of the Assignment computed from the same score matrix
\* under the same policy with any lower minimum score.
C30_RaisingLimitOnlyRemoves ==
    pc = "done" =>
        /\ matches = DirectionalMapping(scores, min_score, cardinality, values, candidates)
        /\ \A t \in MinScores :
              t <= min_score =>
                  matches \subseteq
                      DirectionalMapping(scores, t, cardinality, values, candidates)

\* C30 witness: a finished OneToOne pass whose Assignment is not empty and is
\* strictly smaller than the Assignment with the lowest minimum score.
C30_Witness ==
    /\ pc = "done"
    /\ cardinality = OneToOne
    /\ matches # {}
    /\ min_score > -1
    /\ matches # DirectionalMapping(scores, -1, cardinality, values, candidates)

\* An override table without its entries for a value.
WithoutEntries(table, v) ==
    [default |-> [table.default EXCEPT ![v] = NoCandidate],
     specific |-> [k \in Contexts |-> [table.specific[k] EXCEPT ![v] = NoCandidate]]]

\* The row of value u in the matrix built without the overrides of value v.
RowWithoutOverride(u, v) ==
    RowOf(score_function, heuristics, WithoutEntries(overrides, v), filter_functions,
          context, [override_function EXCEPT ![v] = NoCandidate], candidates, u)

C23_ShortCircuitStopsLaterSteps ==
    Scored =>
        \A p \in AllPairs :
            LET S == FirstReturned(heuristics, 1, p[1])
            IN (Heuristical(p) /\ S # {}) =>
                  scores[p] = IF p[2] \in S THEN PosInf ELSE NegInf

\* C23 witness: the first step short-circuits v0 to c1; the second step, an
\* alias, would have scored (v0, c0) highest, and c0 stays at -inf.
C23_Witness ==
    /\ Scored
    /\ Len(heuristics) = 2
    /\ heuristics[1].kind = "short_circuit"
    /\ heuristics[2].kind = "alias"
    /\ Heuristical(<<"v0", "c0">>)
    /\ Heuristical(<<"v0", "c1">>)
    /\ \A v \in HeuristicValues : score_function[<<v, "c0">>] = MaxScore
    /\ scores[<<"v0", "c0">>] = NegInf
    /\ scores[<<"v0", "c1">>] = PosInf

\* The working value and the working candidate (of candidate c) that step i
\* receives: the rewrites of the earlier steps configured with mutate.
RECURSIVE WorkingValue(_, _, _)
WorkingValue(steps, i, v) ==
    IF i = 1 THEN v
    ELSE LET w == WorkingValue(steps, i - 1, v)
         IN IF steps[i - 1].kind = "alias" /\ steps[i - 1].mutate
            THEN steps[i - 1].value[w] ELSE w

RECURSIVE WorkingCandidate(_, _, _)
WorkingCandidate(steps, i, c) ==
    IF i = 1 THEN c
    ELSE LET w == WorkingCandidate(steps, i - 1, c)
         IN IF steps[i - 1].kind = "alias" /\ steps[i - 1].mutate
            THEN steps[i - 1].candidate[w] ELSE w

\* The scores a pair is given by the score function and by each alias step,
\* on what the step receives, less the penalty of the step's position.
StageScores(p) ==
    {score_function[p]}
    \cup {score_function[<<heuristics[i].value[WorkingValue(heuristics, i, p[1])],
                           heuristics[i].candidate[WorkingCandidate(heuristics, i, p[2])]>>]
             - PositionalPenalty * i :
          i \in {j \in DOMAIN heuristics : heuristics[j].kind = "alias"}}

\* C24: an alias step without mutate leaves the working (value, candidates)
\* as it received them for the steps after it, and one with mutate hands its
\* rewrite to them: the score of a pair is the best of the scores each step
\* computes on what it so receives, and a short-circuit step is asked with
\* the working value it so receives.
C24_MutateDecidesWorkingPair ==
    Scored =>
        \A p \in AllPairs :
            (Heuristical(p) /\ FirstReturned(heuristics, 1, p[1]) = {}) =>
                /\ scores[p] \in StageScores(p)
                /\ \A x \in StageScores(p) : scores[p] >= x

\* C24 witness: two alias steps, the first rewriting the value with mutate,
\* the second swapping the candidates: the score of (v1, c0) is the score
\* function's score of (w0, c1) less the penalty of the second position,
\* above what v1 and w0 score for c0.
C24_Witness ==
    /\ Scored
    /\ heuristics = <<AliasStep(ValueToAlias, NoCandidateRewrite, TRUE),
                      AliasStep(NoValueRewrite, SwapCandidates, TRUE)>>
    /\ Heuristical(<<"v1", "c0">>)
    /\ score_function[<<"v1", "c0">>] = 0
    /\ score_function[<<"v1", "c1">>] = 0
    /\ score_function[<<"w0", "c0">>] = 0
    /\ score_function[<<"w0", "c1">>] = MaxScore
    /\ scores[<<"v1", "c0">>] = MaxScore - 2 * PositionalPenalty
    /\ scores[<<"v1", "c0">>] > 0

\* C28: a candidate a filter rejected for a value keeps score -inf through
\* the heuristic steps, alias or short-circuit, and the pair is never in the
\* Assignment.
C28_RejectedStaysRejected ==
    \A p \in DOMAIN scores :
        (Forced(p[1]) = NoCandidate /\ p[2] \in Rejected(filter_functions, p[1])) =>
            (scores[p] = NegInf /\ p \notin matches)

\* C28 witness: a filter rejects c1 for v0, the first step short-circuits v0
\* to c1 and the score function scores c1 highest for v0 and for its alias;
\* ManyToMany with the lowest minimum score leaves v0 unmapped.
C28_Witness ==
    /\ pc = "done"
    /\ cardinality = ManyToMany
    /\ min_score = -1
    /\ Forced("v0") = NoCandidate
    /\ Rejected(filter_functions, "v0") = {"c1"}
    /\ Len(heuristics) = 2
    /\ heuristics[1].kind = "short_circuit"
    /\ "c1" \in FirstReturned(heuristics, 1, "v0")
    /\ score_function[<<"v0", "c1">>] = MaxScore
    /\ score_function[<<"w0", "c1">>] = MaxScore
    /\ scores[<<"v0", "c1">>] = NegInf
    /\ "v0" \in unmapped

\* The score matrix and the Assignment a call produces when it runs alone:
\* functions of its arguments and of the Mapper's configuration.
ScoresAlone(call) ==
    [p \in Pairs(call.values, call.candidates) |->
        RowOf(score_function, heuristics, overrides, filter_functions, call.context,
              call.override_function, call.candidates, p[1])[p[2]]]

MatchesAlone(call) ==
    DirectionalMapping(ScoresAlone(call), min_score, cardinality,
                       call.values, call.candidates)

\* A finished call holds the result it produces when run alone.
ResultAsAlone(call) ==
    call.pc = "done" =>
        /\ call.scores = ScoresAlone(call)
        /\ call.matches = MatchesAlone(call)
        /\ call.unmapped = UnmappedValues(call.values, call.matches)

\* A step of one thread leaves the call of the other thread and the Mapper's
\* configuration as they are.
C26_StepIsLocal ==
    /\ config' = config
    /\ running' = running => suspended' = suspended
    /\ running' # running => (suspended' = RunningCall /\ RunningCall' = suspended)

\* C26: two calls running concurrently on one Mapper, their steps
\* interleaved in any order, each produce the score matrix and the Assignment
\* they produce when run alone; no step of a call writes the state of the
\* other call, and the override table and the heuristic list never change.
C26_ConcurrentCallsIndependent ==
    /\ [](ResultAsAlone(RunningCall) /\ ResultAsAlone(suspended))
    /\ [][C26_StepIsLocal]_vars

\* C26 witness: both calls have finished, on different value and candidate
\* sequences and in different contexts, with different Assignments, sharing
\* an override table with entries and a heuristic list with steps.
C26_Witness ==
    /\ pc = "done"
    /\ suspended.pc = "done"
    /\ values # suspended.values
    /\ candidates # suspended.candidates
    /\ context # suspended.context
    /\ overrides = ContextOverrides
    /\ heuristics # <<>>
    /\ matches # {}
    /\ suspended.matches # {}
    /\ matches # suspended.matches

====
